---- MODULE Spec2Model ----
(***************************************************************************)
(* Lifecycle of locust users (src/locust/user/users.py): User.start,       *)
(* User.run, User.wait and User.stop, for a group of users that run as     *)
(* greenlets of one gevent group.                                          *)
(*                                                                         *)
(* Greenlets are cooperative: a context runs without interruption from one *)
(* suspension point to the next, so every action below takes a context     *)
(* from one suspension point to the next one.  The hooks (on_start,        *)
(* on_stop, the nested groups' teardown) and the task bodies are user code *)
(* that may block, so each of them holds a suspension point; a hook that   *)
(* never blocks behaves like the runs in which nothing else happens while  *)
(* the context is inside it.                                               *)
(*                                                                         *)
(* The scheduler loop and TaskSet.wait live in locust/user/task.py, which  *)
(* is not among the sources: SchedulerLoop, Unwind, TaskSetWait and        *)
(* TaskSetWakeUp follow sections 4.2 and 4.3 of the specification.         *)
(*                                                                         *)
(* The building of user classes (UserMeta.__new__), the construction of    *)
(* instances (User.__init__, HttpUser.__init__) and the weighted draw of   *)
(* the scheduler are modelled next to the lifecycle, each with its own     *)
(* variables and its own specification (ClassSpec, DrawSpec).              *)
(***************************************************************************)
EXTENDS Integers, Sequences, FiniteSets, TLC

NumUsers == 2
MaxDepth == 2
MaxClasses == 4
MaxInstances == 2
MaxTasks == 3
MaxWeight == 3

Users == 1..NumUsers

\* _greenlet = None: the user holds no handle
NoGreenlet == 0

LOCUST_STATE_RUNNING == "running"
LOCUST_STATE_WAITING == "waiting"
LOCUST_STATE_STOPPING == "stopping"
\* _state = None
StateNone == "None"

States == {StateNone, LOCUST_STATE_RUNNING, LOCUST_STATE_WAITING, LOCUST_STATE_STOPPING}

\* Where a context is.  "nocontext": no greenlet was spawned; "spawned": the
\* greenlet exists and has not begun run(); "on_start", "task", "sleep",
\* "teardown", "on_stop": suspended inside the setup hook, a task body, the
\* sleep of wait(), a nested group's teardown hook, the user's on_stop hook;
\* "done": run() returned; "exited": GreenletExit left run(); "failed":
\* another error left run(); "cancelled": killed before run() began.
Suspended == {"spawned", "on_start", "task", "sleep", "teardown", "on_stop"}
Ended == {"done", "exited", "failed", "cancelled"}
PCs == {"nocontext"} \cup Suspended \cup Ended

Termination == {"GreenletExit", "StopUser"}
Exceptions == Termination \cup {"Error"}

VARIABLES
    state,        \* User._state
    greenlet,     \* User._greenlet: the handle start() stored
    pc,           \* per context: where it is
    depth,        \* per context: nesting level of the innermost scheduler loop
                  \* that has not been left (0: the user's own loop)
    midTask,      \* per context: the sleep in progress, or the sleep that
                  \* stop(force=False) has just interrupted, was entered from
                  \* a task body
    killedBy,     \* per context: "no", or the branch of stop() whose killone killed it
    ret,          \* the value the last call of stop() returned
    raised,       \* per context: the last exception raised in it
    onStopCalls,  \* per context: number of invocations of User.on_stop
    gracefulReq,  \* per user: stop() has set the state to stopping
    classes,      \* the user classes built so far, in the order they were built
    instances,    \* the user instances constructed so far
    sessions,     \* the HttpSession objects created so far
    err,          \* what the last class statement or constructor call raised
    weights,      \* the weights of the entries of a task list
    roll,         \* the next draw value of the cumulative-weight range
    picked,       \* the entry the last draw selected
    counts        \* per entry: number of draw values that selected it

userVars == <<state, greenlet, pc, depth, midTask, killedBy, ret, raised,
              onStopCalls, gracefulReq>>
classVars == <<classes, instances, sessions, err>>
drawVars == <<weights, roll, picked, counts>>

vars == <<userVars, classVars, drawVars>>

Alive(g) == pc[g] \in Suspended

\* Group.dying: the contexts the group has already killed
Dying == {g \in Users : killedBy[g] # "no"}

\* What a class body can say about abstract, and the tasks it can declare.
AbstractDecl == {"absent", "False", "True"}
OwnTasks == {<<>>, <<"t1">>, <<"t2">>}

\* What self.host can be: None (line 52), or the host the class or the
\* --host option gives.
HostNone == "None"
Hosts == {"h1", "h2"}

\* The client attribute of the class User; sessions are numbered from 1.
NoClientWarningRaiser == 0

\* The classes users.py defines: User (class 1), which declares abstract =
\* True and tasks = [], and HttpUser (class 2), a subclass of User that
\* declares abstract = True and defines the constructor that needs a host.
UserClass == [base |-> 0, tasks |-> <<>>, abstract |-> TRUE, http |-> FALSE]
HttpUserClass == [base |-> 1, tasks |-> <<>>, abstract |-> TRUE, http |-> TRUE]

ClassInit ==
    /\ classes = <<UserClass, HttpUserClass>>
    /\ instances = <<>>
    /\ sessions = <<>>
    /\ err = "-"

TypeOK ==
    /\ state \in [Users -> States]
    /\ greenlet \in [Users -> Users \cup {NoGreenlet}]
    /\ pc \in [Users -> PCs]
    /\ depth \in [Users -> 0..MaxDepth]
    /\ midTask \in [Users -> BOOLEAN]
    /\ killedBy \in [Users -> {"no", "force", "waiting"}]
    /\ ret \in {"-", "True", "False", "None"}
    /\ raised \in [Users -> Exceptions \cup {"none"}]
    /\ onStopCalls \in [Users -> 0..2]
    /\ gracefulReq \in [Users -> BOOLEAN]
    /\ Len(classes) \in 2..MaxClasses
    /\ \A c \in DOMAIN classes :
          /\ classes[c].base \in 0..(c - 1)
          /\ classes[c].abstract \in BOOLEAN
          /\ classes[c].http \in BOOLEAN
    /\ Len(instances) \in 0..MaxInstances
    /\ \A i \in DOMAIN instances :
          /\ instances[i].cls \in DOMAIN classes
          /\ instances[i].client \in {NoClientWarningRaiser} \cup DOMAIN sessions
    /\ \A k \in DOMAIN sessions : sessions[k].base_url \in Hosts
    /\ err \in {"-", "None", "ConfigurationError", "LocustError"}
    /\ Len(weights) \in 1..MaxTasks
    /\ \A i \in DOMAIN weights : weights[i] \in 1..MaxWeight
    /\ picked \in 0..Len(weights)
    /\ roll \in Nat
    /\ DOMAIN counts = DOMAIN weights

Init ==
    /\ state = [u \in Users |-> StateNone]
    /\ greenlet = [u \in Users |-> NoGreenlet]
    /\ pc = [u \in Users |-> "nocontext"]
    /\ depth = [u \in Users |-> 0]
    /\ midTask = [u \in Users |-> FALSE]
    /\ killedBy = [u \in Users |-> "no"]
    /\ ret = "-"
    /\ raised = [u \in Users |-> "none"]
    /\ onStopCalls = [u \in Users |-> 0]
    /\ gracefulReq = [u \in Users |-> FALSE]
    /\ ClassInit
    /\ weights = <<1>>
    /\ roll = 0
    /\ picked = 0
    /\ counts = <<0>>

----------------------------------------------------------------------------
\* Handlers that name one of the two signals only, or every exception.
RunCatchesStopUserOnly(exc) == exc = "StopUser"

RunCatchesGreenletExitOnly(exc) == exc = "GreenletExit"

RunCatchesAll(exc) == TRUE

\* User.run, the handler: except (GreenletExit, StopUser)
RunCatches(exc) == exc \in {"GreenletExit", "StopUser"}

\* A handler that swallows the signal and never calls on_stop().
RunExceptNoTeardown(u, exc) ==
    /\ pc' = [pc EXCEPT ![u] = IF exc \in {"GreenletExit", "StopUser"} THEN "done" ELSE "failed"]
    /\ UNCHANGED onStopCalls

\* An exception reaches the try block of run(): on_stop() begins if the
\* handler catches it, otherwise it leaves run() and ends the context.
RunExcept(u, exc) ==
    IF RunCatches(exc)
    THEN /\ pc' = [pc EXCEPT ![u] = "on_stop"]
         /\ onStopCalls' = [onStopCalls EXCEPT ![u] = @ + 1]
    ELSE /\ pc' = [pc EXCEPT ![u] = IF exc = "GreenletExit" THEN "exited" ELSE "failed"]
         /\ UNCHANGED onStopCalls

\* Section 4.3, step 4: a termination signal reaching the loop of nesting
\* level d >= 1 runs that group's teardown and is raised again to the parent;
\* any other error is not caught by the loops.  At level 0 the exception is
\* in the try block of run().
Unwind(u, exc, d) ==
    /\ raised' = [raised EXCEPT ![u] = exc]
    /\ IF d >= 1 /\ exc \in Termination
       THEN /\ pc' = [pc EXCEPT ![u] = "teardown"]
            /\ depth' = [depth EXCEPT ![u] = d]
            /\ UNCHANGED onStopCalls
       ELSE /\ depth' = [depth EXCEPT ![u] = 0]
            /\ RunExcept(u, exc)

\* Section 4.3, steps 1 to 4 of the loop of level d, the user's state being
\* st: leave on stopping, else draw entries down to a leaf task at level nd.
SchedulerLoop(u, st, d, nd) ==
    IF st = LOCUST_STATE_STOPPING
    THEN Unwind(u, "StopUser", d)
    ELSE /\ pc' = [pc EXCEPT ![u] = "task"]
         /\ depth' = [depth EXCEPT ![u] = nd]
         /\ UNCHANGED <<raised, onStopCalls>>

\* Section 4.2, wait(): the state becomes waiting and the context sleeps.
TaskSetWait(u, mid) ==
    /\ state' = [state EXCEPT ![u] = LOCUST_STATE_WAITING]
    /\ pc' = [pc EXCEPT ![u] = "sleep"]
    /\ midTask' = [midTask EXCEPT ![u] = mid]

\* Section 4.2, wait(): the state wait() stores on resume.
TaskSetWakeUp(st) == LOCUST_STATE_RUNNING

----------------------------------------------------------------------------
\* User.start: the group spawns a greenlet for run(); it runs later.
\* start() is called at most once per instance (section 4.2).
Start(u) ==
    /\ greenlet[u] = NoGreenlet
    /\ greenlet' = [greenlet EXCEPT ![u] = u]
    /\ pc' = [pc EXCEPT ![u] = "spawned"]
    /\ UNCHANGED <<state, depth, midTask, killedBy, ret, raised, onStopCalls, gracefulReq>>
    /\ UNCHANGED <<classVars, drawVars>>

\* A run() that calls on_start() before it stores the state.
RunHookFirst(u) ==
    /\ pc[u] = "spawned"
    /\ pc' = [pc EXCEPT ![u] = "on_start"]
    /\ UNCHANGED <<state, greenlet, depth, midTask, killedBy, ret, raised, onStopCalls, gracefulReq>>
    /\ UNCHANGED <<classVars, drawVars>>

\* User.run up to the call of on_start().
Run(u) ==
    /\ pc[u] = "spawned"
    /\ state' = [state EXCEPT ![u] = LOCUST_STATE_RUNNING]
    /\ pc' = [pc EXCEPT ![u] = "on_start"]
    /\ UNCHANGED <<greenlet, depth, midTask, killedBy, ret, raised, onStopCalls, gracefulReq>>
    /\ UNCHANGED <<classVars, drawVars>>

\* on_start() returns and self._taskset_instance.run() begins.
OnStartReturn(u) ==
    /\ pc[u] = "on_start"
    /\ \E nd \in 0..MaxDepth : SchedulerLoop(u, state[u], 0, nd)
    /\ UNCHANGED <<state, greenlet, midTask, killedBy, ret, gracefulReq>>
    /\ UNCHANGED <<classVars, drawVars>>

\* on_start() raises an error that is no termination signal.
OnStartError(u) ==
    /\ pc[u] = "on_start"
    /\ Unwind(u, "Error", 0)
    /\ UNCHANGED <<state, greenlet, midTask, killedBy, ret, gracefulReq>>
    /\ UNCHANGED <<classVars, drawVars>>

\* The task body returns: step 5 of the loop calls wait().
TaskReturn(u) ==
    /\ pc[u] = "task"
    /\ TaskSetWait(u, FALSE)
    /\ UNCHANGED <<greenlet, depth, killedBy, ret, raised, onStopCalls, gracefulReq>>
    /\ UNCHANGED <<classVars, drawVars>>

\* A task body that sleeps with gevent.sleep() and not with wait().
TaskCallsPlainSleep(u) ==
    /\ pc[u] = "task"
    /\ pc' = [pc EXCEPT ![u] = "sleep"]
    /\ midTask' = [midTask EXCEPT ![u] = TRUE]
    /\ UNCHANGED <<state, greenlet, depth, killedBy, ret, raised, onStopCalls, gracefulReq>>
    /\ UNCHANGED <<classVars, drawVars>>

\* The task body calls User.wait().
TaskCallsWait(u) ==
    /\ pc[u] = "task"
    /\ TaskSetWait(u, TRUE)
    /\ UNCHANGED <<greenlet, depth, killedBy, ret, raised, onStopCalls, gracefulReq>>
    /\ UNCHANGED <<classVars, drawVars>>

\* The task body raises an error that is no termination signal.
TaskError(u) ==
    /\ pc[u] = "task"
    /\ Unwind(u, "Error", depth[u])
    /\ UNCHANGED <<state, greenlet, midTask, killedBy, ret, gracefulReq>>
    /\ UNCHANGED <<classVars, drawVars>>

\* The sleep of wait() ends: wait() stores the state and returns, to the task
\* body that called it or to the loop, which goes on with its next round.
WakeUp(u) ==
    /\ pc[u] = "sleep"
    /\ state' = [state EXCEPT ![u] = TaskSetWakeUp(state[u])]
    /\ midTask' = [midTask EXCEPT ![u] = FALSE]
    /\ IF midTask[u]
       THEN /\ pc' = [pc EXCEPT ![u] = "task"]
            /\ UNCHANGED <<depth, raised, onStopCalls>>
       ELSE \E nd \in depth[u]..MaxDepth :
                SchedulerLoop(u, TaskSetWakeUp(state[u]), depth[u], nd)
    /\ UNCHANGED <<greenlet, killedBy, ret, gracefulReq>>
    /\ UNCHANGED <<classVars, drawVars>>

\* A nested group's teardown hook returns and the signal is raised again.
TeardownReturn(u) ==
    /\ pc[u] = "teardown"
    /\ Unwind(u, raised[u], depth[u] - 1)
    /\ midTask' = [midTask EXCEPT ![u] = FALSE]
    /\ UNCHANGED <<state, greenlet, killedBy, ret, gracefulReq>>
    /\ UNCHANGED <<classVars, drawVars>>

\* on_stop() returns and run() returns.
OnStopReturn(u) ==
    /\ pc[u] = "on_stop"
    /\ pc' = [pc EXCEPT ![u] = "done"]
    /\ midTask' = [midTask EXCEPT ![u] = FALSE]
    /\ UNCHANGED <<state, greenlet, depth, killedBy, ret, raised, onStopCalls, gracefulReq>>
    /\ UNCHANGED <<classVars, drawVars>>

----------------------------------------------------------------------------
\* A kill that finds the context inside on_stop() and runs the handler again.
KillRetriesTeardown(g) ==
    /\ CASE pc[g] = "spawned" ->
            /\ pc' = [pc EXCEPT ![g] = "cancelled"]
            /\ UNCHANGED <<depth, raised, onStopCalls>>
         [] pc[g] \in {"on_start", "task", "sleep"} ->
            Unwind(g, "GreenletExit", depth[g])
         [] pc[g] = "teardown" ->
            Unwind(g, "GreenletExit", depth[g] - 1)
         [] pc[g] = "on_stop" ->
            Unwind(g, "GreenletExit", 0)

\* GreenletExit is thrown into context g at its suspension point.
Kill(g) ==
    /\ CASE pc[g] = "spawned" ->
            /\ pc' = [pc EXCEPT ![g] = "cancelled"]
            /\ UNCHANGED <<depth, raised, onStopCalls>>
         [] pc[g] \in {"on_start", "task", "sleep"} ->
            Unwind(g, "GreenletExit", depth[g])
         [] pc[g] = "teardown" ->
            Unwind(g, "GreenletExit", depth[g] - 1)
         [] pc[g] = "on_stop" ->
            /\ pc' = [pc EXCEPT ![g] = "exited"]
            /\ raised' = [raised EXCEPT ![g] = "GreenletExit"]
            /\ UNCHANGED <<depth, onStopCalls>>

\* A killone that kills again a context the group has already killed.
KilloneNoDyingGuard(g, why) ==
    IF g # NoGreenlet /\ Alive(g)
    THEN /\ Kill(g)
         /\ killedBy' = [killedBy EXCEPT ![g] = why]
         /\ midTask' = [midTask EXCEPT ![g] = midTask[g] /\ pc[g] = "sleep" /\ why = "waiting"]
    ELSE UNCHANGED <<pc, depth, midTask, raised, onStopCalls, killedBy>>

\* gevent_group.killone(g): kills g if it is in the group (alive) and the
\* group has not killed it before; otherwise nothing happens.  why: the
\* branch of stop() that calls it.
Killone(g, why) ==
    IF g # NoGreenlet /\ g \notin Dying /\ Alive(g)
    THEN /\ Kill(g)
         /\ killedBy' = [killedBy EXCEPT ![g] = why]
         /\ midTask' = [midTask EXCEPT ![g] = midTask[g] /\ pc[g] = "sleep" /\ why = "waiting"]
    ELSE UNCHANGED <<pc, depth, midTask, raised, onStopCalls, killedBy>>

\* A first branch that tests force alone.
KillsNowForceOnly(st, force) == force

\* User.stop, first branch: if force or self._state == LOCUST_STATE_WAITING
KillsNow(st, force) == force \/ st = LOCUST_STATE_WAITING

\* A second branch that is a plain else.
DefersAlways(st) == TRUE

\* User.stop, second branch: elif self._state == LOCUST_STATE_RUNNING
Defers(st) == st = LOCUST_STATE_RUNNING

\* A stop() whose deferral stores the state on the class, for every user.
StopSharedState(u, force) ==
    /\ IF KillsNow(state[u], force)
       THEN /\ ret' = "True"
            /\ UNCHANGED <<state, gracefulReq>>
            /\ Killone(greenlet[u], IF force THEN "force" ELSE "waiting")
       ELSE IF Defers(state[u])
       THEN /\ ret' = "False"
            /\ state' = [v \in Users |-> LOCUST_STATE_STOPPING]
            /\ gracefulReq' = [gracefulReq EXCEPT ![u] = TRUE]
            /\ UNCHANGED <<pc, depth, midTask, raised, onStopCalls, killedBy>>
       ELSE /\ ret' = "None"
            /\ UNCHANGED <<state, gracefulReq, pc, depth, midTask, raised, onStopCalls, killedBy>>
    /\ UNCHANGED greenlet
    /\ UNCHANGED <<classVars, drawVars>>

\* User.stop(gevent_group, force), called from outside u's context.  The
\* call that matches neither branch falls off the end and returns None.
Stop(u, force) ==
    /\ IF KillsNow(state[u], force)
       THEN /\ ret' = "True"
            /\ UNCHANGED <<state, gracefulReq>>
            /\ Killone(greenlet[u], IF force THEN "force" ELSE "waiting")
       ELSE IF Defers(state[u])
       THEN /\ ret' = "False"
            /\ state' = [state EXCEPT ![u] = LOCUST_STATE_STOPPING]
            /\ gracefulReq' = [gracefulReq EXCEPT ![u] = TRUE]
            /\ UNCHANGED <<pc, depth, midTask, raised, onStopCalls, killedBy>>
       ELSE /\ ret' = "None"
            /\ UNCHANGED <<state, gracefulReq, pc, depth, midTask, raised, onStopCalls, killedBy>>
    /\ UNCHANGED greenlet
    /\ UNCHANGED <<classVars, drawVars>>

StopGraceful(u) == Stop(u, FALSE)
StopForce(u) == Stop(u, TRUE)

Next ==
    \E u \in Users :
        \/ Start(u)
        \/ Run(u)
        \/ OnStartReturn(u)
        \/ OnStartError(u)
        \/ TaskReturn(u)
        \/ TaskCallsWait(u)
        \/ TaskError(u)
        \/ WakeUp(u)
        \/ TeardownReturn(u)
        \/ OnStopReturn(u)
        \/ StopGraceful(u)
        \/ StopForce(u)

Spec == Init /\ [][Next]_vars

\* A context that is ready to go on is scheduled again: hooks return and
\* sleeps end.  A task body completes even if it calls wait() again and
\* again on its way (strong fairness).  Errors, calls of wait() from a task
\* body and calls of stop() are never forced.
Fairness ==
    \A u \in Users :
        /\ WF_vars(Run(u))
        /\ WF_vars(OnStartReturn(u))
        /\ SF_vars(TaskReturn(u))
        /\ WF_vars(WakeUp(u))
        /\ WF_vars(TeardownReturn(u))
        /\ WF_vars(OnStopReturn(u))

FairSpec == Init /\ [][Next]_vars /\ Fairness

----------------------------------------------------------------------------
\* Building of user classes and construction of instances.

\* Section 4.1: the merged task list of a class, its own tasks first, then
\* those of its base that it does not declare itself.
MergedTasks(b, own) ==
    own \o SelectSeq(classes[b].tasks, LAMBDA t : \A i \in DOMAIN own : own[i] # t)

\* A resolver that accepts every task list.
ResolverNeverFails(merged, decl) == FALSE

\* Section 4.1: the resolver fails if the merged list is empty and the
\* class is not abstract.  UserMeta.__new__ calls it with the class body as
\* written, before it fills in abstract.
ResolverFails(merged, decl) == merged = <<>> /\ decl # "True"

\* An abstract flag that a class which does not declare it takes from its base.
AbstractInherited(decl, b) == decl = "True" \/ (decl = "absent" /\ classes[b].abstract)

\* UserMeta.__new__: class_dict["abstract"] is left as declared if it is
\* true and is set to False otherwise, whatever the bases are.
IsAbstract(decl, b) == decl = "True"

\* A class statement that builds the class even if the resolver fails.
BuildClassKeepsClass(b, own, decl) ==
    /\ Len(classes) < MaxClasses
    /\ b \in DOMAIN classes
    /\ LET merged == MergedTasks(b, own) IN
         /\ classes' = Append(classes, [base |-> b,
                                        tasks |-> merged,
                                        abstract |-> IsAbstract(decl, b),
                                        http |-> classes[b].http])
         /\ err' = IF ResolverFails(merged, decl) THEN "ConfigurationError" ELSE "None"
    /\ UNCHANGED <<instances, sessions, userVars, drawVars>>

\* UserMeta.__new__ for a class statement with base b, the tasks own and
\* the declaration decl of abstract.  An exception of the resolver leaves
\* the class statement and no class is built.
BuildClass(b, own, decl) ==
    /\ Len(classes) < MaxClasses
    /\ b \in DOMAIN classes
    /\ LET merged == MergedTasks(b, own) IN
         IF ResolverFails(merged, decl)
         THEN /\ err' = "ConfigurationError"
              /\ UNCHANGED classes
         ELSE /\ classes' = Append(classes, [base |-> b,
                                             tasks |-> merged,
                                             abstract |-> IsAbstract(decl, b),
                                             http |-> classes[b].http])
              /\ err' = "None"
    /\ UNCHANGED <<instances, sessions, userVars, drawVars>>

\* User.__init__: the instance keeps the client of the class User.
UserInit(c, host) ==
    /\ instances' = Append(instances, [cls |-> c, client |-> NoClientWarningRaiser])
    /\ err' = "None"
    /\ UNCHANGED sessions

\* A constructor that creates the session before it looks at the host.
HttpUserInitSessionFirst(c, host) ==
    /\ sessions' = Append(sessions, [base_url |-> host, trust_env |-> FALSE])
    /\ IF host = HostNone
       THEN /\ err' = "LocustError"
            /\ UNCHANGED instances
       ELSE /\ instances' = Append(instances, [cls |-> c, client |-> Len(sessions) + 1])
            /\ err' = "None"

\* HttpUser.__init__: raises if self.host is None, and otherwise creates a
\* session for the host and stores it as the client of the instance.
HttpUserInit(c, host) ==
    IF host = HostNone
    THEN /\ err' = "LocustError"
         /\ UNCHANGED <<instances, sessions>>
    ELSE /\ sessions' = Append(sessions, [base_url |-> host, trust_env |-> FALSE])
         /\ instances' = Append(instances, [cls |-> c, client |-> Len(sessions) + 1])
         /\ err' = "None"

\* Section 3: abstract classes are never instantiated as running users.
Spawnable(c) == ~classes[c].abstract

\* A user of class c is constructed, self.host being host.
Instantiate(c, host) ==
    /\ Len(instances) < MaxInstances
    /\ c \in DOMAIN classes
    /\ Spawnable(c)
    /\ IF classes[c].http THEN HttpUserInit(c, host) ELSE UserInit(c, host)
    /\ UNCHANGED <<classes, userVars, drawVars>>

ClassNext ==
    \/ \E b \in 1..MaxClasses, own \in OwnTasks, decl \in AbstractDecl :
          BuildClass(b, own, decl)
    \/ \E c \in 1..MaxClasses, host \in Hosts \cup {HostNone} :
          Instantiate(c, host)

ClassSpec == Init /\ [][ClassNext]_vars

----------------------------------------------------------------------------
\* The weighted draw of the scheduler (section 4.3, step 2).

RECURSIVE Sum(_)
Sum(ws) == IF ws = <<>> THEN 0 ELSE Head(ws) + Sum(Tail(ws))

\* A draw that selects the first entry whose own weight exceeds the value.
RECURSIVE PickFirstMatch(_, _, _)
PickFirstMatch(ws, x, i) ==
    IF i > Len(ws) THEN 0
    ELSE IF x < ws[i] THEN i
    ELSE PickFirstMatch(ws, x, i + 1)

\* The entry in whose stretch of the cumulative-weight range x falls,
\* looking from entry i on; 0 if there is none.
RECURSIVE Pick(_, _, _)
Pick(ws, x, i) ==
    IF i > Len(ws) THEN 0
    ELSE IF x < ws[i] THEN i
    ELSE Pick(ws, x - ws[i], i + 1)

Select(ws, x) == Pick(ws, x, 1)

WeightLists == UNION {[1..n -> 1..MaxWeight] : n \in 1..MaxTasks}

DrawInit ==
    /\ state = [u \in Users |-> StateNone]
    /\ greenlet = [u \in Users |-> NoGreenlet]
    /\ pc = [u \in Users |-> "nocontext"]
    /\ depth = [u \in Users |-> 0]
    /\ midTask = [u \in Users |-> FALSE]
    /\ killedBy = [u \in Users |-> "no"]
    /\ ret = "-"
    /\ raised = [u \in Users |-> "none"]
    /\ onStopCalls = [u \in Users |-> 0]
    /\ gracefulReq = [u \in Users |-> FALSE]
    /\ ClassInit
    /\ weights \in WeightLists
    /\ roll = 0
    /\ picked = 0
    /\ counts = [i \in DOMAIN weights |-> 0]

\* The scheduler draws with the next value of the range 0..total-1.
Draw ==
    /\ roll < Sum(weights)
    /\ picked' = Select(weights, roll)
    /\ counts' = [i \in DOMAIN counts |->
                    IF i = Select(weights, roll) THEN counts[i] + 1 ELSE counts[i]]
    /\ roll' = roll + 1
    /\ UNCHANGED <<weights, userVars, classVars>>

DrawNext == Draw

DrawSpec == DrawInit /\ [][DrawNext]_vars

----------------------------------------------------------------------------
Active == {LOCUST_STATE_RUNNING, LOCUST_STATE_WAITING, LOCUST_STATE_STOPPING}

\* A value that is not true: False or None
Falsy(r) == r \in {"False", "None"}

\* In this step the scheduler loop of u starts a task body.
TaskBegins(u) ==
    /\ pc'[u] = "task"
    /\ \/ pc[u] = "on_start"
       \/ pc[u] = "sleep" /\ ~midTask[u]

\* Everything of user v and of its context is left as it is.
UserUnchanged(v) ==
    /\ state'[v] = state[v]
    /\ greenlet'[v] = greenlet[v]
    /\ pc'[v] = pc[v]
    /\ depth'[v] = depth[v]
    /\ midTask'[v] = midTask[v]
    /\ killedBy'[v] = killedBy[v]
    /\ raised'[v] = raised[v]
    /\ onStopCalls'[v] = onStopCalls[v]

\* C1: stop(force=false) on a running user returns False, sets the state to
\* stopping and leaves the context alone, and once it has done so the user
\* starts no new task.
C1_GracefulStopNoNewTask ==
    [][\A u \in Users :
          /\ (state[u] = LOCUST_STATE_RUNNING /\ Stop(u, FALSE)) =>
                /\ ret' = "False"
                /\ state'[u] = LOCUST_STATE_STOPPING
                /\ pc' = pc
                /\ killedBy' = killedBy
          /\ gracefulReq[u] => ~TaskBegins(u)]_vars

\* C2: after stop(force=false) has set the state to stopping, under fair
\* scheduling the user's context eventually ends.
C2_GracefulStopTerminates ==
    \A u \in Users : gracefulReq[u] ~> (pc[u] \in Ended)

\* C3: stop(force=false) on a user whose state is waiting kills the context
\* at once and returns True, and on_stop of a user killed this way is invoked
\* exactly once: never twice, and once by the time on_stop is reached.
C3_GracefulStopWhileWaiting ==
    /\ [][\A u \in Users :
            (state[u] = LOCUST_STATE_WAITING /\ Stop(u, FALSE)) =>
                /\ ret' = "True"
                /\ killedBy'[u] # "no"
                /\ pc'[u] \in {"teardown", "on_stop", "done", "exited"}
                /\ state'[u] = state[u]]_vars
    /\ [](\A u \in Users :
            killedBy[u] = "waiting" =>
                /\ onStopCalls[u] <= 1
                /\ pc[u] \in {"teardown", "on_stop", "done"}
                /\ pc[u] \in {"on_stop", "done"} => onStopCalls[u] = 1)

C3_Witness ==
    \E u \in Users :
        /\ killedBy[u] = "waiting"
        /\ state[u] = LOCUST_STATE_WAITING
        /\ ret = "True"
        /\ pc[u] = "done"
        /\ onStopCalls[u] = 1

C6_StopAfterEndNoOp ==
    [][\A u \in Users : \A f \in BOOLEAN :
          (pc[u] \in Ended /\ Stop(u, f)) =>
              /\ Falsy(ret')
              /\ UNCHANGED <<state, greenlet, pc, killedBy, onStopCalls>>]_vars

\* A step of context v that is not an error, a call of wait() or a kill.
ContextStep(v) ==
    \/ Run(v)
    \/ OnStartReturn(v)
    \/ TaskReturn(v)
    \/ WakeUp(v)
    \/ TeardownReturn(v)
    \/ OnStopReturn(v)

\* C7: an error of a task body or of on_start that is no termination signal
\* leaves run() uncaught (no teardown hook runs) and ends that context only:
\* nothing of any other user changes, and every other live context can still
\* take its next step.
C7_TaskFailureIsolation ==
    /\ [][\A u \in Users :
            (raised'[u] = "Error" /\ raised[u] # "Error") =>
                /\ pc'[u] = "failed"
                /\ onStopCalls'[u] = onStopCalls[u]
                /\ \A v \in Users \ {u} : UserUnchanged(v)]_vars
    /\ [](\A u, v \in Users :
            (pc[u] = "failed" /\ Alive(v)) => ENABLED ContextStep(v))

C7_Witness ==
    \E u, v \in Users :
        /\ pc[u] = "failed"
        /\ raised[u] = "Error"
        /\ depth[u] = 0
        /\ onStopCalls[u] = 0
        /\ pc[v] = "task"
        /\ state[v] = LOCUST_STATE_RUNNING

\* The context of u has ended after a termination signal or a kill.
EndedByUnwind(u) ==
    /\ pc[u] \in Ended
    /\ raised[u] \in Termination \/ killedBy[u] # "no"

\* C8, as claimed: a context ended by StopUser or by a kill has returned from
\* run() normally, after on_stop.
C8_TerminationReturnsNormally ==
    \A u \in Users : EndedByUnwind(u) => (pc[u] = "done" /\ onStopCalls[u] = 1)

\* C8, amended: a context ended by StopUser or by a kill never ends in
\* failure; run() has returned after on_stop, except that a context killed
\* before run() began ends with no hook run, and a context killed by force
\* while on_stop was suspended ends with GreenletExit leaving run().
C8_TerminationNeverFails ==
    \A u \in Users :
        EndedByUnwind(u) =>
            /\ pc[u] # "failed"
            /\ pc[u] = "done" => onStopCalls[u] = 1
            /\ pc[u] = "cancelled" =>
                  /\ state[u] = StateNone
                  /\ killedBy[u] = "force"
                  /\ onStopCalls[u] = 0
            /\ pc[u] = "exited" =>
                  /\ state[u] = LOCUST_STATE_STOPPING
                  /\ killedBy[u] = "force"
                  /\ onStopCalls[u] = 1

C8_Witness ==
    \E u, v \in Users :
        /\ pc[u] = "exited"
        /\ onStopCalls[u] = 1
        /\ pc[v] = "done"
        /\ raised[v] = "StopUser"

Edges ==
    {<<StateNone, LOCUST_STATE_RUNNING>>,
     <<LOCUST_STATE_RUNNING, LOCUST_STATE_WAITING>>,
     <<LOCUST_STATE_WAITING, LOCUST_STATE_RUNNING>>,
     <<LOCUST_STATE_RUNNING, LOCUST_STATE_STOPPING>>}

\* C10: the state of a user changes only along the edges of the lifecycle,
\* so never from stopping back to running or waiting, and a context that has
\* ended stays ended.
C10_LifecycleTransitions ==
    [][\A u \in Users :
          /\ state'[u] # state[u] => <<state[u], state'[u]>> \in Edges
          /\ pc[u] \in Ended => pc'[u] = pc[u]]_vars

\* C14: run() stores the state running in the step that begins on_start;
\* on_start begins at most once per context, only as the first thing run()
\* does, and every context past the start of run() has begun it; a task
\* starts only after on_start has returned or after a sleep; on_stop is
\* invoked only by a context that has begun on_start; and no task starts
\* once on_stop has been invoked.
C14_HookOrdering ==
    /\ [][\A u \in Users :
            /\ (pc'[u] = "on_start" /\ pc[u] # "on_start") =>
                  /\ pc[u] = "spawned"
                  /\ state'[u] = LOCUST_STATE_RUNNING
            /\ pc'[u] = "spawned" => pc[u] \in {"nocontext", "spawned"}
            /\ pc'[u] = "nocontext" => pc[u] = "nocontext"
            /\ (pc'[u] = "task" /\ pc[u] # "task") => pc[u] \in {"on_start", "sleep"}
            /\ onStopCalls'[u] # onStopCalls[u] =>
                  pc[u] \in {"on_start", "task", "sleep", "teardown"}
            /\ onStopCalls[u] >= 1 => pc'[u] # "task"]_vars
    /\ [](\A u \in Users :
            /\ pc[u] \in {"on_start", "task", "sleep"} => state[u] \in Active
            /\ onStopCalls[u] >= 1 => pc[u] \in {"on_stop", "done", "exited"}
            /\ pc[u] \in {"nocontext", "spawned", "cancelled"} =>
                  state[u] = StateNone /\ onStopCalls[u] = 0)

C14_Witness ==
    \E u, v \in Users :
        /\ pc[u] = "task"
        /\ state[u] = LOCUST_STATE_RUNNING
        /\ pc[v] = "on_stop"
        /\ onStopCalls[v] = 1
        /\ raised[v] = "StopUser"

\* C15: stop(force=false) on a user suspended in a wait() that its task body
\* called returns True and kills the context at once: the context goes to
\* the teardown of its groups and to on_stop, and the task body it was in is
\* never resumed.
C15_MidTaskWaitIsKillPoint ==
    /\ [][\A u \in Users :
            /\ (pc[u] = "sleep" /\ midTask[u] /\ Stop(u, FALSE)) =>
                  /\ ret' = "True"
                  /\ killedBy'[u] = "waiting"
                  /\ raised'[u] = "GreenletExit"
                  /\ pc'[u] = IF depth[u] >= 1 THEN "teardown" ELSE "on_stop"
                  /\ depth[u] = 0 => onStopCalls'[u] = 1
            /\ (midTask[u] /\ killedBy[u] # "no") =>
                  pc'[u] \in {"teardown", "on_stop", "done"}]_vars
    /\ [](\A u \in Users :
            (midTask[u] /\ pc[u] # "sleep") =>
                /\ killedBy[u] = "waiting"
                /\ pc[u] \in {"teardown", "on_stop"}
                /\ pc[u] = "on_stop" => onStopCalls[u] = 1)

C15_Witness ==
    \E u \in Users :
        /\ midTask[u]
        /\ killedBy[u] = "waiting"
        /\ ret = "True"
        /\ pc[u] = "on_stop"
        /\ onStopCalls[u] = 1

\* C16: stop(force=false) on a started user whose context is alive either
\* kills the context or leaves the state stopping.
C16_NoLostStop ==
    [][\A u \in Users :
          (greenlet[u] # NoGreenlet /\ Alive(u) /\ Stop(u, FALSE)) =>
              \/ killedBy'[u] # "no"
              \/ state'[u] = LOCUST_STATE_STOPPING]_vars

\* C17, as claimed: a user whose state is waiting has its context suspended
\* in the sleep of wait().
C17_WaitingMeansSuspendedInWait ==
    \A u \in Users : state[u] = LOCUST_STATE_WAITING => pc[u] = "sleep"

\* C17, amended: a user whose state is waiting has its context either
\* suspended in the sleep of wait() and not killed, or killed out of that
\* sleep and in a teardown, in on_stop or returned from run(); the state is
\* never waiting in a task body outside wait() or in on_start; and
\* stop(force=false) on a user whose context is in a teardown or in on_stop
\* changes nothing of that context.
C17_WaitingMeansInWaitOrKilledThere ==
    /\ [](\A u \in Users :
            state[u] = LOCUST_STATE_WAITING =>
                \/ pc[u] = "sleep" /\ killedBy[u] = "no"
                \/ /\ killedBy[u] # "no"
                   /\ pc[u] \in {"teardown", "on_stop", "done"})
    /\ [][\A u \in Users :
            (pc[u] \in {"teardown", "on_stop"} /\ Stop(u, FALSE)) =>
                UNCHANGED <<pc, depth, midTask, killedBy, raised, onStopCalls>>]_vars

C17_Witness ==
    \E u \in Users :
        /\ state[u] = LOCUST_STATE_WAITING
        /\ killedBy[u] = "waiting"
        /\ pc[u] = "teardown"
        /\ ret = "True"

\* C18: whatever stop() calls a user receives, on_stop is invoked at most
\* once in the lifetime of its context.
C18_TeardownAtMostOnce ==
    \A u \in Users : onStopCalls[u] <= 1

C18_Witness ==
    \E u \in Users :
        /\ gracefulReq[u]
        /\ killedBy[u] = "force"
        /\ pc[u] = "exited"
        /\ onStopCalls[u] = 1

\* C19: u.stop(group, force) leaves the state, the handle and the context
\* of every other user as they are (a step that changes any of them is not
\* a call of u.stop), and the handle a user holds is the handle of its own
\* context.
C19_StopAffectsOnlyTarget ==
    /\ [][\A u \in Users :
            (\E v \in Users \ {u} : ~UserUnchanged(v)) =>
                ~Stop(u, TRUE) /\ ~Stop(u, FALSE)]_vars
    /\ [](\A u \in Users : greenlet[u] \in {NoGreenlet, u})

C19_Witness ==
    \E u, v \in Users :
        /\ u # v
        /\ state[u] = LOCUST_STATE_STOPPING
        /\ gracefulReq[u]
        /\ ~gracefulReq[v]
        /\ state[v] = LOCUST_STATE_WAITING
        /\ pc[v] = "sleep"
        /\ killedBy[v] = "no"

\* C11: a class statement whose merged task list is empty and that is not
\* abstract raises ConfigurationError and builds no class; so every class
\* that is built and not abstract has a task, and every instance belongs to
\* a built class that has a task.
C11_EmptyTaskListFailsFast ==
    /\ [][\A b \in 1..MaxClasses, own \in OwnTasks, decl \in AbstractDecl :
            (BuildClass(b, own, decl) /\ MergedTasks(b, own) = <<>> /\ decl # "True") =>
                /\ err' = "ConfigurationError"
                /\ classes' = classes
                /\ instances' = instances]_vars
    /\ [](\A c \in DOMAIN classes :
            ~classes[c].abstract => classes[c].tasks # <<>>)
    /\ [](\A i \in DOMAIN instances :
            /\ instances[i].cls \in DOMAIN classes
            /\ classes[instances[i].cls].tasks # <<>>)

C11_Witness ==
    /\ err = "ConfigurationError"
    /\ Len(classes) = 3
    /\ classes[3].tasks = <<"t1">>
    /\ \E i \in DOMAIN instances : instances[i].cls = 3

\* C12: the constructor of a class derived from HttpUser, called with no
\* host, raises LocustError, creates no session and yields no instance;
\* called with a host, it creates one new session for that host and yields
\* an instance whose client is that session, which no other instance has.
C12_MissingHost ==
    /\ [][\A c \in 1..MaxClasses, host \in Hosts \cup {HostNone} :
            (Instantiate(c, host) /\ classes[c].http) =>
                IF host = HostNone
                THEN /\ err' = "LocustError"
                     /\ sessions' = sessions
                     /\ instances' = instances
                ELSE /\ err' = "None"
                     /\ sessions' = Append(sessions, [base_url |-> host, trust_env |-> FALSE])
                     /\ instances' = Append(instances, [cls |-> c, client |-> Len(sessions')])]_vars
    /\ [](\A i \in DOMAIN instances :
            classes[instances[i].cls].http =>
                /\ instances[i].client \in DOMAIN sessions
                /\ sessions[instances[i].client].base_url \in Hosts
                /\ \A j \in DOMAIN instances :
                      instances[j].client = instances[i].client => j = i)
    /\ [](Len(sessions) =
            Cardinality({i \in DOMAIN instances : classes[instances[i].cls].http}))

C12_Witness ==
    /\ err = "LocustError"
    /\ Len(instances) = 1
    /\ Len(sessions) = 1
    /\ classes[instances[1].cls].http
    /\ sessions[instances[1].client].base_url = "h2"

\* C13: every draw value of the range 0..total-1 selects an entry of the
\* list; once every value of the range has been drawn, each entry has been
\* selected by exactly as many values as its weight; and every draw from a
\* list of one entry selects that entry.
C13_WeightedDraw ==
    /\ roll <= Sum(weights)
    /\ roll > 0 => picked \in DOMAIN weights
    /\ Sum(counts) = roll
    /\ \A i \in DOMAIN weights : counts[i] <= weights[i]
    /\ roll = Sum(weights) => counts = weights
    /\ (Len(weights) = 1 /\ roll > 0) => picked = 1

C13_Witness ==
    /\ Len(weights) = 3
    /\ weights[1] < weights[2]
    /\ weights[3] < weights[2]
    /\ roll = Sum(weights)
    /\ counts = weights
    /\ picked = 3

\* C20: a class is built abstract exactly if its own body declares abstract
\* true, whatever its base is; User and HttpUser are abstract; no instance
\* is of an abstract class, and a user of a class that is not abstract can
\* be constructed.
C20_AbstractPerClass ==
    /\ [][\A b \in 1..MaxClasses, own \in OwnTasks, decl \in AbstractDecl :
            (BuildClass(b, own, decl) /\ classes' # classes) =>
                /\ classes' = Append(classes, classes'[Len(classes')])
                /\ classes'[Len(classes')].abstract = (decl = "True")]_vars
    /\ [](classes[1].abstract /\ classes[2].abstract)
    /\ [](\A i \in DOMAIN instances : ~classes[instances[i].cls].abstract)
    /\ [](\A c \in DOMAIN classes :
            (~classes[c].abstract /\ Len(instances) < MaxInstances) =>
                \A host \in Hosts : ENABLED Instantiate(c, host))

C20_Witness ==
    \E c \in DOMAIN classes :
        /\ ~classes[c].abstract
        /\ classes[c].base = 2
        /\ classes[classes[c].base].abstract
        /\ \E i \in DOMAIN instances : instances[i].cls = c

====
